---- MODULE Spec2Model ----

(***************************************************************************)
(* Motion-triggered capture pipeline of treehouse:                         *)
(*   - CaptureService.run (services/capture/src/capture_service.py), the   *)
(*     capture thread, with its camera handle, locks, health counters,     *)
(*     warmup / debounce / cooldown gating and publish step;               *)
(*   - the read-side handlers /capture/live, /capture/health and           *)
(*     /capture/status served by concurrent request threads;               *)
(*   - the Redis lists "images" and "detections" and DetectionService.run  *)
(*     (services/detection/src/detection_service.py), the consumer.        *)
(* Time is counted in ticks of one frame period (sleep_time = 1 / fps).    *)
(***************************************************************************)
EXTENDS Integers, Naturals, Sequences, FiniteSets, TLC

(* ------------------------------ bounds -------------------------------- *)
\* last clock value explored
MaxTime == 9
\* loop iterations (frames read) explored by the full capture loop
MaxFrames == 7
\* loop iterations explored when request threads run next to the loop
MaxFramesLocks == 5
\* loop iterations explored when the detection consumer runs next to the loop
MaxFramesQueue == 9
\* consecutive_errors threshold; 50 in the source, scaled
max_consecutive_errors == 2
\* extra ticks a settle wait may take beyond settle_wait
MaxJitter == 1
\* loop iterations explored for the host service
MaxFramesHost == 6
\* loop iterations explored for each gate configuration
MaxFramesGate == 11

\* num_samples of capture_best_frame
MaxSamples == 3
\* largest Laplacian variance of a sampled frame
MaxSharpness == 2
\* longest list handed to delete_image_files
MaxPaths == 2

(* ---------------------- configuration (scaled) ------------------------ *)
\* the extra entries of the clip buffer (10 in the source, scaled)
buffer_extra == 1
\* video_clip_fps is counted in frames per FpsDen ticks
FpsDen == 2
\* config['video_clip_duration'], in ticks: the values explored
ClipDurations == {1, 3}
\* config['video_clip_fps'], in frames per FpsDen ticks: the values explored
ClipRates == {1, 3}
\* (config['motion_cooldown'], config['motion_delay']) in ticks: the pairs
\* explored, with the cooldown below, equal to and above the delay
GateConfigs == {<<1, 3>>, <<2, 2>>, <<3, 1>>}
\* is_valid_frame: smallest usable width and height, in pixels
MinDimension == 10
\* pixel standard deviations are counted in 1/StdUnit of a grey level
StdUnit == 10000
\* is_valid_frame: the 0.001 below which a frame counts as uniform
StdEpsilon == 10
\* config['motion_cooldown'], in ticks
cooldown == 4
\* config['motion_delay'], in ticks
motion_delay == 1
\* int(fps * 5)
warmup_frames == 3
\* time.sleep(0.3) before a capture, in ticks
settle_wait == 1
\* time.sleep(self.reconnect_delay), in ticks
reconnect_delay == 1
\* config['motion_min_area']
motion_min_area == 2
\* self.last_motion_min_area before the first detect_motion
initial_min_area == 10000
\* brightness < 0.2, in thousandths
low_light_threshold == 200
\* Python None for the timestamps and frame references
None == -1

(* foreground pixel counts a frame may yield: below, at and above min_area *)
Areas == {motion_min_area - 1, motion_min_area, motion_min_area + 1}

(* brightness readings (thousandths) a frame may yield *)
Brightnesses == {low_light_threshold - 1, low_light_threshold}

(* request threads of the Flask server (threaded=True) *)
Handlers == {"h1", "h2"}

(* classifier verdicts for an image *)
Categories == {"none", "bird"}

VARIABLES
    pc,               \* position of the capture thread in run()
    now,              \* wall clock, ticks
    limit,            \* number of loop iterations explored
    self,             \* the fields of the CaptureService object
    run,              \* the locals of CaptureService.run()
    cap_lock,         \* holder of self.cap_lock, or "free"
    brightness_lock,  \* holder of self.brightness_lock, or "free"
    last_frame_lock,  \* holder of self.last_frame_lock, or "free"
    images_queue,     \* Redis list "images"; lpush at index 1, brpop at Len
    detections_queue, \* Redis list "detections"
    image_store,      \* image paths present under images_path
    hist,             \* history of the capture loop (not program state)
    hpc,              \* position of each request thread
    resp,             \* the last response sent by a request thread
    status_locals,    \* the part of the status response already evaluated
    dpc,              \* position of the detection consumer
    image_data,       \* message the consumer is processing
    dhist             \* history of the consumer (not program state)

lock_vars == <<cap_lock, brightness_lock, last_frame_lock>>
handler_vars == <<hpc, resp, status_locals>>
queue_vars == <<images_queue, detections_queue, image_store>>
consumer_vars == <<dpc, image_data, dhist>>
vars == <<pc, now, limit, self, run, hist, lock_vars, handler_vars,
          queue_vars, consumer_vars>>

NoResponse == [route |-> "none"]
NoMessage == [image_path |-> None]

(* CaptureService.__init__ *)
InitSelf ==
    [cap |-> "none",          \* "none" | "closed" (not opened) | "open"
     consecutive_errors |-> 0,
     frame_errors |-> 0,
     corrupted_frames |-> 0,
     total_frames |-> 0,
     current_brightness |-> 0,
     is_low_light |-> FALSE,
     last_good_frame |-> None, \* frame_count of the cached frame
     last_motion_area |-> 0,
     last_motion_min_area |-> initial_min_area,
     bg_frames |-> 0,          \* frames assimilated by self.bg_subtractor
     frame_buffer |-> <<>>,    \* host service: (timestamp, frame) entries
     video_clip_duration |-> 3,  \* host service, in ticks
     video_clip_fps |-> 3,       \* host service, in frames per FpsDen ticks
     max_buffer_frames |-> 5]    \* host service: int(duration * fps) + extra

(* the locals of run() before the loop *)
InitRun ==
    [frame_count |-> 0,
     motion_detected |-> FALSE,
     current_time |-> 0,
     motion_detected_time |-> None,
     last_capture_time |-> 0,
     cooldown |-> cooldown,         \* config.get('motion_cooldown')
     motion_delay |-> motion_delay, \* config.get('motion_delay')
     timestamp |-> None,
     jpeg_bytes |-> FALSE,     \* fetch_snapshot_bytes returned bytes
     best_frame |-> None,      \* frame returned by capture_best_frame
     image_source |-> "none",  \* what was handed to save_image
     video_path |-> None,      \* host service: result of save_video_clip
     samples |-> <<>>,         \* capture_best_frame: what each cap.read() of
                               \* the sampling loop will give
     i |-> 1,                  \* capture_best_frame: the loop variable, from 1
     best_sharpness |-> 0,     \* capture_best_frame: best_sharpness
     frames_to_save |-> <<>>,  \* host service: save_video_clip's snapshot
     frame |-> [none |-> TRUE, ndim |-> 0, width |-> 0, height |-> 0,
                std |-> 0],    \* is_valid_frame: its argument
     valid |-> FALSE,          \* is_valid_frame: its result
     image_paths |-> <<>>,     \* delete_image_files: its argument
     position |-> 1,           \* delete_image_files: place in the for loop
     deleted_count |-> 0]      \* delete_image_files: deleted_count

InitHist ==
    [events |-> <<>>,        \* one record per successful lpush of a capture
     streak_start |-> None,  \* time of the first frame of the current unbroken
                             \* run of validated frames with detected = true
     fail_run |-> 0,         \* failing iterations since the last valid frame
     run_reconnects |-> 0,   \* threshold reconnects in that run
     run_clean |-> TRUE,     \* that run: unreadable frames only, no failed reopen
     reported |-> FALSE,     \* detect_motion has produced a reading
     triggers |-> 0,         \* iterations on which should_capture was true
     last_trigger |-> None,  \* loop time of the last such iteration
     attempts |-> <<>>,      \* timestamps handed to publish_to_redis
     appended |-> <<>>,      \* host service: every entry appended to the
                             \* clip buffer, in arrival order
     clip_time |-> None,     \* host service: time.time() of the last
                             \* save_video_clip
     files_before |-> {},    \* storage service: the files present when
                             \* delete_image_files was called
     raised |-> {},          \* storage service: the relative paths on which
                             \* an unlink raised
     pushed |-> <<>>]        \* image paths in the order lpush applied them

InitDHist ==
    [popped |-> <<>>,      \* image paths in the order brpop returned them
     completed |-> {},     \* image paths whose processing ran to its end
     verdict |-> <<>>,     \* the classifier's category of an image, once run
     outcome |-> "none"]   \* how the last pass through process_image ended

(* State after CaptureService.__init__ and DetectionService.__init__ *)
InitWith(n) ==
    /\ pc = "start"
    /\ now = 0
    /\ limit = n
    /\ self = InitSelf
    /\ run = InitRun
    /\ hist = InitHist
    /\ cap_lock = "free" /\ brightness_lock = "free" /\ last_frame_lock = "free"
    /\ images_queue = <<>> /\ detections_queue = <<>> /\ image_store = {}
    /\ hpc = [h \in Handlers |-> "idle"]
    /\ resp = NoResponse
    /\ status_locals = NoResponse
    /\ dpc = "pop"
    /\ image_data = NoMessage
    /\ dhist = InitDHist

Init == InitWith(MaxFrames)

(* ------------------------- pure helpers of run() ----------------------- *)
(* self.cap and self.cap.isOpened() *)
IsOpened(c) == c = "open"

(* mutant: close_camera leaves the handle as it is *)
CloseCamera_Skipped(c) == c

(* close_camera: release() and, in its finally, self.cap = None *)
CloseCamera(c) == "none"

(* open_camera: consecutive_errors is reset only when the open succeeded *)
OpenCameraErrors(ok, ce) == IF ok THEN 0 ELSE ce

(* open_camera leaves a VideoCapture object behind, opened or not *)
OpenCameraHandle(ok) == IF ok THEN "open" ELSE "closed"

(* mutant: the threshold compared with > *)
NeedReconnect_Strict(ce) == ce > max_consecutive_errors

(* if self.consecutive_errors >= self.max_consecutive_errors *)
NeedReconnect(ce) == ce >= max_consecutive_errors

(* mutant: validator rejections kept apart from the read-failure counter *)
ErrorsAfterInvalid_Apart(ce) == ce

(* increments applied to consecutive_errors by one failed iteration *)
ErrorsAfterFalse(ce) == ce + 1
ErrorsAfterRaise(ce) == (ce + 1) + 1
ErrorsAfterInvalid(ce) == ce + 1

(* mutant: warmup ends one frame early *)
InWarmup_OneShort(fc) == fc < warmup_frames - 1

(* if frame_count < warmup_frames *)
InWarmup(fc) == fc < warmup_frames

(* detect_motion: motion_detected = motion_area > min_area *)
MotionDetected(area, min_area) == area > min_area

(* brightness < 0.2 *)
LowLight(b) == b < low_light_threshold

(* mutant: motion_detected_time survives a frame without motion *)
NextMotionTime_NoReset(md, mdt, ct) ==
    IF md THEN (IF mdt = None THEN ct ELSE mdt) ELSE mdt

(* motion_detected_time after "Track when motion is first detected" *)
NextMotionTime(md, mdt, ct) ==
    IF md THEN (IF mdt = None THEN ct ELSE mdt) ELSE None

(* mutant: the gate does not look at the time of the last capture *)
ShouldCapture_NoCooldown(md, ct, lct, mdt) ==
    /\ md
    /\ mdt # None
    /\ ct - mdt >= run.motion_delay

(* should_capture *)
ShouldCapture(md, ct, lct, mdt) ==
    /\ md
    /\ ct - lct >= run.cooldown
    /\ mdt # None
    /\ ct - mdt >= run.motion_delay

(* save_image / save_jpeg_bytes: the relative path is the formatted timestamp *)
PathOf(ts) == ts

(* publish_to_redis: the message built from image_path and metadata *)
Message(path, ts) == [image_path |-> path, timestamp |-> ts, motion_score |-> 1]

(* redis lpush: push at the head of the list *)
LPush(q, m) == <<m>> \o q

(* the time explored: MaxTime under the default motion_delay, and as much   *)
(* longer as the configured delay exceeds the default                       *)
Horizon == MaxTime + (run.motion_delay - motion_delay)

(* time.sleep(d) *)
Sleep(d) == now + d <= Horizon /\ now' = now + d

(* ---------------------- capture thread: run() ------------------------- *)
(* run() up to the loop: connect, initial open_camera, locals *)
Start ==
    /\ pc = "start"
    /\ cap_lock = "free"
    /\ \E ok \in BOOLEAN :
         self' = [self EXCEPT
                    !.cap = OpenCameraHandle(ok),
                    !.consecutive_errors = OpenCameraErrors(ok, @)]
    /\ run' = [run EXCEPT !.last_capture_time = now]
    /\ pc' = "loop"
    /\ UNCHANGED <<now, limit, hist, lock_vars, handler_vars, queue_vars,
                   consumer_vars>>

(* while self.running: ... with self.cap_lock: *)
LoopAcquire ==
    /\ pc = "loop"
    /\ run.frame_count < limit
    /\ cap_lock = "free"
    /\ cap_lock' = "capture"
    /\ pc' = "locked"
    /\ UNCHANGED <<now, limit, self, run, hist, brightness_lock,
                   last_frame_lock, handler_vars, queue_vars, consumer_vars>>

(* camera not opened: open_camera() is called with cap_lock held, and its   *)
(* close_camera() waits for cap_lock, a non-reentrant threading.Lock        *)
TopReopenBlocks ==
    /\ pc = "locked"
    /\ ~IsOpened(self.cap)
    /\ pc' = "blocked"
    /\ UNCHANGED <<now, limit, self, run, hist, lock_vars, handler_vars,
                   queue_vars, consumer_vars>>

(* a failing iteration that also forgets when motion started *)
FailedIteration_ForgetsMotion(ce, fe, cf, unreadable, nap) ==
    /\ cap_lock' = "free"
    /\ run' = [run EXCEPT !.frame_count = @ + 1,
                          !.motion_detected_time = None]
    /\ self' = [self EXCEPT !.total_frames = @ + 1,
                            !.consecutive_errors = ce,
                            !.frame_errors = fe,
                            !.corrupted_frames = cf]
    /\ hist' = [hist EXCEPT !.fail_run = @ + 1,
                            !.run_clean = (@ /\ unreadable)]
    /\ IF NeedReconnect(ce)
         THEN pc' = "rc_close" /\ now' = now
         ELSE pc' = "loop" /\ Sleep(nap)
    /\ UNCHANGED <<limit, brightness_lock, last_frame_lock, handler_vars,
                   queue_vars, consumer_vars>>

(* the part common to the failing iterations: counters, threshold check *)
FailedIteration(ce, fe, cf, unreadable, nap) ==
    /\ cap_lock' = "free"
    /\ run' = [run EXCEPT !.frame_count = @ + 1]
    /\ self' = [self EXCEPT !.total_frames = @ + 1,
                            !.consecutive_errors = ce,
                            !.frame_errors = fe,
                            !.corrupted_frames = cf]
    /\ hist' = [hist EXCEPT !.fail_run = @ + 1,
                            !.run_clean = (@ /\ unreadable)]
    /\ IF NeedReconnect(ce)
         THEN pc' = "rc_close" /\ now' = now
         ELSE pc' = "loop" /\ Sleep(nap)
    /\ UNCHANGED <<limit, brightness_lock, last_frame_lock, handler_vars,
                   queue_vars, consumer_vars>>

(* ret, frame = self.cap.read() returned ret = False *)
ReadFalse ==
    /\ pc = "locked"
    /\ IsOpened(self.cap)
    /\ FailedIteration(ErrorsAfterFalse(self.consecutive_errors),
                       self.frame_errors + 1, self.corrupted_frames, TRUE, 1)

(* self.cap.read() raised: the except block counts, then the ret check does *)
ReadRaise ==
    /\ pc = "locked"
    /\ IsOpened(self.cap)
    /\ FailedIteration(ErrorsAfterRaise(self.consecutive_errors),
                       self.frame_errors + 2, self.corrupted_frames, TRUE, 1)

(* the frame was read and is_valid_frame rejected it *)
ReadInvalid ==
    /\ pc = "locked"
    /\ IsOpened(self.cap)
    /\ FailedIteration(ErrorsAfterInvalid(self.consecutive_errors),
                       self.frame_errors, self.corrupted_frames + 1, FALSE, 0)

(* a valid frame: counters, consecutive_errors reset *)
ReadOk ==
    /\ pc = "locked"
    /\ IsOpened(self.cap)
    /\ cap_lock' = "free"
    /\ run' = [run EXCEPT !.frame_count = @ + 1]
    /\ self' = [self EXCEPT !.total_frames = @ + 1,
                            !.consecutive_errors = 0]
    /\ hist' = [hist EXCEPT !.fail_run = 0, !.run_reconnects = 0,
                            !.run_clean = TRUE]
    /\ pc' = "brightness"
    /\ UNCHANGED <<now, limit, brightness_lock, last_frame_lock,
                   handler_vars, queue_vars, consumer_vars>>

(* brightness = self.measure_brightness(frame); with self.brightness_lock *)
UpdateBrightness ==
    /\ pc = "brightness"
    /\ brightness_lock = "free"
    /\ \E b \in Brightnesses :
         self' = [self EXCEPT !.current_brightness = b,
                              !.is_low_light = LowLight(b)]
    /\ pc' = "store"
    /\ UNCHANGED <<now, limit, run, hist, lock_vars, handler_vars,
                   queue_vars, consumer_vars>>

(* with self.last_frame_lock: self.last_good_frame = frame.copy() *)
StoreLastGood ==
    /\ pc = "store"
    /\ last_frame_lock = "free"
    /\ self' = [self EXCEPT !.last_good_frame = run.frame_count]
    /\ pc' = "motion"
    /\ UNCHANGED <<now, limit, run, hist, lock_vars, handler_vars,
                   queue_vars, consumer_vars>>

(* current_time, motion tracking and should_capture, given the reading md *)
Gate(md) ==
    /\ run' = [run EXCEPT
                 !.current_time = now,
                 !.motion_detected = md,
                 !.motion_detected_time = NextMotionTime(md, @, now)]
    /\ pc' = IF ShouldCapture(md, now, run.last_capture_time,
                              NextMotionTime(md, run.motion_detected_time, now))
               THEN "settle" ELSE "sleep"
    /\ UNCHANGED <<now, limit, lock_vars, handler_vars, queue_vars,
                   consumer_vars>>

(* the history kept next to Gate *)
GateHist(md, reading) ==
    hist' = [hist EXCEPT
               !.streak_start = IF md THEN (IF @ = None THEN now ELSE @)
                                      ELSE None,
               !.reported = (@ \/ reading),
               !.triggers = IF ShouldCapture(md, now, run.last_capture_time,
                                  NextMotionTime(md, run.motion_detected_time,
                                                 now))
                              THEN @ + 1 ELSE @,
               !.last_trigger = IF ShouldCapture(md, now, run.last_capture_time,
                                  NextMotionTime(md, run.motion_detected_time,
                                                 now))
                              THEN now ELSE @]

(* warmup: the frame is fed to MOG2 and motion_detected is forced False *)
WarmupFrame ==
    /\ pc = "motion"
    /\ InWarmup(run.frame_count)
    /\ self' = [self EXCEPT !.bg_frames = @ + 1]
    /\ Gate(FALSE)
    /\ GateHist(FALSE, FALSE)

(* after warmup: detect_motion(frame, background) *)
DetectFrame ==
    /\ pc = "motion"
    /\ ~InWarmup(run.frame_count)
    /\ \E area \in Areas :
         /\ self' = [self EXCEPT !.bg_frames = @ + 1,
                                 !.last_motion_area = area,
                                 !.last_motion_min_area = motion_min_area]
         /\ Gate(MotionDetected(area, motion_min_area))
         /\ GateHist(MotionDetected(area, motion_min_area), TRUE)

(* time.sleep(0.3); timestamp = datetime.now(timezone.utc) *)
Settle ==
    /\ pc = "settle"
    /\ \E j \in 0..MaxJitter : Sleep(settle_wait + j)
    /\ run' = [run EXCEPT !.timestamp = now', !.jpeg_bytes = FALSE,
                          !.best_frame = None, !.image_source = "none",
                          !.video_path = None]
    /\ pc' = "select"
    /\ UNCHANGED <<limit, self, hist, lock_vars, handler_vars, queue_vars,
                   consumer_vars>>

(* mutant: the snapshot is never preferred to the burst *)
UseSnapshot_Never(jpeg_bytes) == FALSE

(* if jpeg_bytes: save_jpeg_bytes, else: capture_best_frame *)
UseSnapshot(jpeg_bytes) == jpeg_bytes

(* if best_frame is None: best_frame = frame *)
ImageSource(best_frame) == IF best_frame = None THEN "current" ELSE "burst"

(* jpeg_bytes = self.fetch_snapshot_bytes(): bytes, or None when no         *)
(* snapshot_url is configured or the fetch failed                           *)
FetchSnapshot ==
    /\ pc = "select"
    /\ \E bytes \in BOOLEAN : run' = [run EXCEPT !.jpeg_bytes = bytes]
    /\ pc' = "fetched"
    /\ UNCHANGED <<now, limit, self, hist, lock_vars, handler_vars,
                   queue_vars, consumer_vars>>

(* save_jpeg_bytes / save_image return image_path; written tells whether    *)
(* the file got onto the disk (the result of cv2.imwrite is not looked at)  *)
SaveImage(source, best, written, next) ==
    /\ image_store' = IF written THEN image_store \cup {PathOf(run.timestamp)}
                                 ELSE image_store
    /\ run' = [run EXCEPT !.image_source = source, !.best_frame = best]
    /\ pc' = next
    /\ UNCHANGED <<now, limit, self, hist, brightness_lock, last_frame_lock,
                   handler_vars, images_queue, detections_queue,
                   consumer_vars>>

(* fetch_snapshot_bytes returned bytes: save_jpeg_bytes *)
CaptureSnapshot ==
    /\ pc = "fetched"
    /\ UseSnapshot(run.jpeg_bytes)
    /\ UNCHANGED cap_lock
    /\ SaveImage("snapshot", None, TRUE, "publish")

(* no snapshot: capture_best_frame, with self.cap_lock: *)
BurstAcquire ==
    /\ pc = "fetched"
    /\ ~UseSnapshot(run.jpeg_bytes)
    /\ cap_lock = "free"
    /\ cap_lock' = "capture"
    /\ pc' = "burst"
    /\ UNCHANGED <<now, limit, self, run, hist, brightness_lock,
                   last_frame_lock, handler_vars, queue_vars, consumer_vars>>

(* capture_best_frame returned the sharpest sampled frame *)
CaptureBurst ==
    /\ pc = "burst"
    /\ cap_lock' = "free"
    /\ \E written \in BOOLEAN :
         SaveImage(ImageSource(run.frame_count), run.frame_count, written,
                   "publish")

(* mutant: a burst without a frame drops the capture *)
CaptureCurrent_Dropped ==
    /\ pc = "burst"
    /\ cap_lock' = "free"
    /\ pc' = "sleep"
    /\ UNCHANGED <<now, limit, self, run, hist, brightness_lock,
                   last_frame_lock, handler_vars, queue_vars, consumer_vars>>

(* capture_best_frame returned None: best_frame = frame *)
CaptureCurrent ==
    /\ pc = "burst"
    /\ cap_lock' = "free"
    /\ \E written \in BOOLEAN :
         SaveImage(ImageSource(None), None, written, "publish")

(* an exception leaves the while loop for the handler after it *)
LoopRaises ==
    /\ pc' = "except"
    /\ cap_lock' = IF cap_lock = "capture" THEN "free" ELSE cap_lock
    /\ UNCHANGED <<now, limit, self, run, hist, brightness_lock,
                   last_frame_lock, handler_vars, queue_vars, consumer_vars>>

(* detect_motion / bg_subtractor.apply raises (cv2.error) *)
DetectRaises ==
    /\ pc = "motion"
    /\ LoopRaises

(* save_jpeg_bytes / save_image raises (mkdir or open fails) *)
SaveImageRaises ==
    /\ \/ pc = "fetched" /\ UseSnapshot(run.jpeg_bytes)
       \/ pc = "burst"
    /\ LoopRaises

(* mutant: a capture leaves motion_detected_time as it was *)
AfterPublish_KeepsMotionTime ==
    /\ run' = [run EXCEPT !.last_capture_time = run.current_time]
    /\ pc' = "sleep"
    /\ UNCHANGED <<now, limit, self, lock_vars, handler_vars,
                   detections_queue, image_store, consumer_vars>>

(* what follows publish_to_redis in run() *)
AfterPublish ==
    /\ run' = [run EXCEPT !.last_capture_time = run.current_time,
                          !.motion_detected_time = None]
    /\ pc' = "sleep"
    /\ UNCHANGED <<now, limit, self, lock_vars, handler_vars,
                   detections_queue, image_store, consumer_vars>>

(* the CaptureEvent of the capture in progress, for the history *)
Event ==
    [timestamp |-> run.timestamp,
     trigger |-> run.current_time,
     frame |-> run.frame_count,
     started |-> run.motion_detected_time,
     streak |-> hist.streak_start,
     source |-> run.image_source,
     clip |-> run.video_path]

(* publish_to_redis: lpush succeeded *)
PublishOk ==
    /\ pc = "publish"
    /\ images_queue' = LPush(images_queue,
                             Message(PathOf(run.timestamp), run.timestamp))
    /\ hist' = [hist EXCEPT !.events = Append(@, Event),
                            !.attempts = Append(@, run.timestamp),
                            !.pushed = Append(@, PathOf(run.timestamp))]
    /\ AfterPublish

(* mutant: after a failed push the cooldown gate is left as it was *)
PublishError_Unarmed ==
    /\ pc = "publish"
    /\ hist' = [hist EXCEPT !.attempts = Append(@, run.timestamp)]
    /\ pc' = "sleep"
    /\ UNCHANGED <<now, limit, self, run, lock_vars, handler_vars,
                   queue_vars, consumer_vars>>

(* publish_to_redis: lpush raised, the exception is printed and dropped *)
PublishError ==
    /\ pc = "publish"
    /\ UNCHANGED images_queue
    /\ hist' = [hist EXCEPT !.attempts = Append(@, run.timestamp)]
    /\ AfterPublish

(* time.sleep(sleep_time) at the end of the iteration *)
EndOfIteration ==
    /\ pc = "sleep"
    /\ Sleep(1)
    /\ pc' = "loop"
    /\ UNCHANGED <<limit, self, run, hist, lock_vars, handler_vars,
                   queue_vars, consumer_vars>>

(* threshold reconnect: self.close_camera(); time.sleep(reconnect_delay) *)
ReconnectClose ==
    /\ pc = "rc_close"
    /\ cap_lock = "free"
    /\ self' = [self EXCEPT !.cap = CloseCamera(@)]
    /\ Sleep(reconnect_delay)
    /\ hist' = [hist EXCEPT !.run_reconnects = @ + 1]
    /\ pc' = "rc_open"
    /\ UNCHANGED <<limit, run, lock_vars, handler_vars, queue_vars,
                   consumer_vars>>

(* threshold reconnect: self.open_camera() and what follows it *)
ReconnectOpen(ok) ==
    /\ cap_lock = "free"
    /\ self' = [self EXCEPT
                  !.cap = OpenCameraHandle(ok),
                  !.consecutive_errors = OpenCameraErrors(ok, @)]
    /\ hist' = [hist EXCEPT !.run_clean = (@ /\ ok)]
    /\ IF ok THEN now' = now ELSE Sleep(reconnect_delay)
    /\ pc' = "loop"
    /\ UNCHANGED <<limit, run, lock_vars, handler_vars, queue_vars,
                   consumer_vars>>

ReconnectOpenOk ==
    /\ pc = "rc_open"
    /\ ReconnectOpen(TRUE)

ReconnectOpenFail ==
    /\ pc = "rc_open"
    /\ ReconnectOpen(FALSE)

(* KeyboardInterrupt in the capture thread: the with block releases cap_lock *)
Interrupt ==
    /\ pc \in {"loop", "locked", "blocked", "sleep"}
    /\ pc' = "finally"
    /\ cap_lock' = IF cap_lock = "capture" THEN "free" ELSE cap_lock
    /\ UNCHANGED <<now, limit, self, run, hist, brightness_lock,
                   last_frame_lock, handler_vars, queue_vars, consumer_vars>>

(* finally: self.close_camera() *)
Finally ==
    /\ pc \in {"finally", "except"}
    /\ cap_lock = "free"
    /\ self' = [self EXCEPT !.cap = CloseCamera(@)]
    /\ pc' = "stopped"
    /\ UNCHANGED <<now, limit, run, hist, lock_vars, handler_vars,
                   queue_vars, consumer_vars>>

(* publish_to_redis: the broker applied the lpush, its reply was lost and  *)
(* the client's retry applied it again                                     *)
PublishRetried ==
    /\ pc = "publish"
    /\ images_queue' =
         LPush(LPush(images_queue,
                     Message(PathOf(run.timestamp), run.timestamp)),
               Message(PathOf(run.timestamp), run.timestamp))
    /\ hist' = [hist EXCEPT !.events = Append(@, Event),
                            !.attempts = Append(@, run.timestamp),
                            !.pushed = Append(Append(@, PathOf(run.timestamp)),
                                              PathOf(run.timestamp))]
    /\ AfterPublish

(* --------------- host service: HostCaptureService.run ------------------ *)
(* the loop of host_capture_service.py reads, validates, gates and settles  *)
(* as the loop above does; what differs is modelled here: the clip buffer,  *)
(* no snapshot source, the clip export and the message it publishes         *)

(* with self.last_frame_lock: self.last_good_frame = frame.copy() *)
HostStoreLastGood ==
    /\ pc = "store"
    /\ last_frame_lock = "free"
    /\ self' = [self EXCEPT !.last_good_frame = run.frame_count]
    /\ pc' = "buffer"
    /\ UNCHANGED <<now, limit, run, hist, lock_vars, handler_vars,
                   queue_vars, consumer_vars>>

(* int(self.video_clip_fps * self.video_clip_duration) *)
ClipFrames(duration, fps) == (fps * duration) \div FpsDen

(* self.max_buffer_frames *)
MaxBufferFrames(duration, fps) == ClipFrames(duration, fps) + buffer_extra

(* mutant: above the maximum the entry just appended is dropped *)
BufferAfterAppend_DropNewest(buffer, entry, max) ==
    IF Len(buffer) + 1 > max THEN buffer ELSE Append(buffer, entry)

(* self.frame_buffer after append and the pop(0) above the maximum *)
BufferAfterAppend(buffer, entry, max) ==
    IF Len(buffer) + 1 > max THEN Tail(Append(buffer, entry))
                             ELSE Append(buffer, entry)

(* self.frame_buffer.append((time.time(), frame.copy())) *)
BufferFrame ==
    /\ pc = "buffer"
    /\ self' = [self EXCEPT !.frame_buffer =
                  BufferAfterAppend(@, [t |-> now, frame |-> run.frame_count],
                                    self.max_buffer_frames)]
    /\ hist' = [hist EXCEPT !.appended =
                  Append(@, [t |-> now, frame |-> run.frame_count])]
    /\ pc' = "motion"
    /\ UNCHANGED <<now, limit, run, lock_vars, handler_vars, queue_vars,
                   consumer_vars>>

(* best_frame = self.capture_best_frame(...), with self.cap_lock: *)
HostBurstAcquire ==
    /\ pc = "select"
    /\ cap_lock = "free"
    /\ cap_lock' = "capture"
    /\ pc' = "burst"
    /\ UNCHANGED <<now, limit, self, run, hist, brightness_lock,
                   last_frame_lock, handler_vars, queue_vars, consumer_vars>>

(* the burst returned a frame: save_image(best_frame, timestamp) *)
HostCaptureBurst ==
    /\ pc = "burst"
    /\ cap_lock' = "free"
    /\ \E written \in BOOLEAN :
         SaveImage(ImageSource(run.frame_count), run.frame_count, written,
                   "clip")

(* the burst returned None: best_frame = frame *)
HostCaptureCurrent ==
    /\ pc = "burst"
    /\ cap_lock' = "free"
    /\ \E written \in BOOLEAN :
         SaveImage(ImageSource(None), None, written, "clip")

(* how an export with frames to save can end *)
ClipOutcomes == {"saved", "no_writer", "raised"}

(* name of the clip file, next to the image *)
VideoPathOf(ts) == ts

(* mutant: the snapshot takes the whole buffer, whatever its age *)
InWindow_Unfiltered(buffer, cutoff_time) == buffer

(* [(t, f) for t, f in self.frame_buffer if t >= cutoff_time] *)
InWindow(buffer, cutoff_time) ==
    LET Recent(e) == e.t >= cutoff_time
    IN  SelectSeq(buffer, Recent)

(* buffer[-k:] of Python: the last k entries, and the whole list for k = 0 *)
LastEntries(buffer, k) ==
    IF k = 0 \/ k >= Len(buffer)
      THEN buffer
      ELSE SubSeq(buffer, Len(buffer) - k + 1, Len(buffer))

(* save_video_clip: frames_to_save, taken under frame_buffer_lock *)
FramesToSave(buffer, current_time, duration, fps) ==
    IF InWindow(buffer, current_time - duration) # <<>>
      THEN InWindow(buffer, current_time - duration)
      ELSE LastEntries(buffer, ClipFrames(duration, fps))

(* save_video_clip: None when there is nothing to save, when no writer     *)
(* opens with either codec, or when writing raises; the clip's path        *)
(* otherwise                                                               *)
ClipResult(buffered, outcome, ts) ==
    IF buffered = <<>> THEN None
    ELSE IF outcome = "saved" THEN VideoPathOf(ts) ELSE None

(* save_video_clip(timestamp) ending with the given outcome *)
ClipExport(outcome) ==
    /\ run' = [run EXCEPT
                 !.frames_to_save =
                    FramesToSave(self.frame_buffer, now,
                                 self.video_clip_duration, self.video_clip_fps),
                 !.video_path =
                    ClipResult(FramesToSave(self.frame_buffer, now,
                                            self.video_clip_duration,
                                            self.video_clip_fps),
                               outcome, run.timestamp)]
    /\ hist' = [hist EXCEPT !.clip_time = now]

(* mutant: a clip that could not be exported ends the capture *)
SaveVideoClip_Fatal ==
    /\ pc = "clip"
    /\ \E outcome \in ClipOutcomes :
         /\ ClipExport(outcome)
         /\ pc' = IF run'.video_path = None THEN "sleep" ELSE "publish"
    /\ UNCHANGED <<now, limit, self, lock_vars, handler_vars, queue_vars,
                   consumer_vars>>

(* video_path = self.save_video_clip(timestamp) *)
SaveVideoClip ==
    /\ pc = "clip"
    /\ \E outcome \in ClipOutcomes : ClipExport(outcome)
    /\ pc' = "publish"
    /\ UNCHANGED <<now, limit, self, lock_vars, handler_vars, queue_vars,
                   consumer_vars>>

(* metadata built in run(): video_path is added only when there is a clip *)
Metadata(ts, video_path) ==
    IF video_path = None
      THEN [timestamp |-> ts, motion_score |-> 1]
      ELSE [timestamp |-> ts, motion_score |-> 1, video_path |-> video_path]

(* message built by publish_to_redis from image_path and metadata *)
HostMessage(image_path, metadata) ==
    [image_path |-> image_path,
     timestamp |-> metadata.timestamp,
     motion_score |-> metadata.motion_score]

(* publish_to_redis: lpush succeeded *)
HostPublishOk ==
    /\ pc = "publish"
    /\ images_queue' =
         LPush(images_queue,
               HostMessage(PathOf(run.timestamp),
                           Metadata(run.timestamp, run.video_path)))
    /\ hist' = [hist EXCEPT !.events = Append(@, Event),
                            !.attempts = Append(@, run.timestamp),
                            !.pushed = Append(@, PathOf(run.timestamp))]
    /\ AfterPublish

(* publish_to_redis: lpush raised, the exception is printed and dropped *)
HostPublishError ==
    /\ pc = "publish"
    /\ UNCHANGED images_queue
    /\ hist' = [hist EXCEPT !.attempts = Append(@, run.timestamp)]
    /\ AfterPublish
(* ----------------------------- is_valid_frame -------------------------- *)
(* a frame as is_valid_frame sees it: None, or an array with len(shape),    *)
(* shape[1], shape[0] and frame.std()                                       *)
Frames ==
    {[none |-> TRUE, ndim |-> 0, width |-> 0, height |-> 0, std |-> 0]}
      \cup [none : {FALSE}, ndim : 1..3,
            width : {MinDimension - 1, MinDimension, 2 * MinDimension},
            height : {MinDimension - 1, MinDimension, 2 * MinDimension},
            std : {0, StdEpsilon - 1, StdEpsilon, StdUnit \div 2, StdUnit,
                   2 * StdUnit}]

(* mutant: low contrast counts as corruption *)
IsValidFrame_RejectsLowContrast(frame) ==
    /\ ~frame.none
    /\ frame.ndim >= 2
    /\ ~(frame.width < MinDimension \/ frame.height < MinDimension)
    /\ ~(frame.std <= StdUnit)

(* is_valid_frame(frame) *)
IsValidFrame(frame) ==
    /\ ~frame.none
    /\ frame.ndim >= 2
    /\ ~(frame.width < MinDimension \/ frame.height < MinDimension)
    /\ ~(frame.std < StdEpsilon)

(* valid = self.is_valid_frame(frame) *)
ValidateFrame ==
    /\ pc = "validate"
    /\ run' = [run EXCEPT !.valid = IsValidFrame(run.frame)]
    /\ pc' = "validated"
    /\ UNCHANGED <<now, limit, self, hist, lock_vars, handler_vars,
                   queue_vars, consumer_vars>>

(* the caller goes on to its next frame *)
NextFrame ==
    /\ pc = "validated"
    /\ \E f \in Frames : run' = [run EXCEPT !.frame = f]
    /\ pc' = "validate"
    /\ UNCHANGED <<now, limit, self, hist, lock_vars, handler_vars,
                   queue_vars, consumer_vars>>
(* ----------------- ImageManager.delete_image_files -------------------- *)
(* the relative image paths of the store and the files that go with one:    *)
(* get_image_path, get_thumbnail_path and get_bbox_image_path               *)
ImagePaths == {"a.jpg", "b.jpg"}
FileKinds == {"thumbnail", "bbox", "image"}
FileOf(path, kind) == [path |-> path, kind |-> kind]
FilesOf(path) == {FileOf(path, kind) : kind \in FileKinds}

(* the files unlinked before the one of the given kind is reached *)
KindsBefore(kind) ==
    IF kind = "thumbnail" THEN {}
    ELSE IF kind = "bbox" THEN {"thumbnail"}
    ELSE {"thumbnail", "bbox"}

(* mutant: a listed path counts whether or not its image was there *)
DeletePathFiles_CountsMissing ==
    /\ pc = "delete"
    /\ run.position <= Len(run.image_paths)
    /\ image_store' = image_store \ FilesOf(run.image_paths[run.position])
    /\ run' = [run EXCEPT !.position = @ + 1, !.deleted_count = @ + 1]
    /\ UNCHANGED <<pc, now, limit, self, hist, lock_vars, handler_vars,
                   images_queue, detections_queue, consumer_vars>>

(* one pass of the for loop in which no call raises: thumbnail, bbox and    *)
(* image are unlinked if they exist, the image alone is counted             *)
DeletePathFiles ==
    /\ pc = "delete"
    /\ run.position <= Len(run.image_paths)
    /\ image_store' = image_store \ FilesOf(run.image_paths[run.position])
    /\ run' = [run EXCEPT
                 !.position = @ + 1,
                 !.deleted_count =
                    IF FileOf(run.image_paths[run.position], "image")
                         \in image_store
                      THEN @ + 1 ELSE @]
    /\ UNCHANGED <<pc, now, limit, self, hist, lock_vars, handler_vars,
                   images_queue, detections_queue, consumer_vars>>

(* one pass of the for loop in which the unlink of an existing file raises: *)
(* the files before it are gone, except Exception logs and the loop goes on *)
DeletePathRaises ==
    /\ pc = "delete"
    /\ run.position <= Len(run.image_paths)
    /\ \E kind \in FileKinds :
         /\ FileOf(run.image_paths[run.position], kind) \in image_store
         /\ image_store' = image_store \
              {FileOf(run.image_paths[run.position], k) : k \in KindsBefore(kind)}
    /\ run' = [run EXCEPT !.position = @ + 1]
    /\ hist' = [hist EXCEPT !.raised = @ \cup {run.image_paths[run.position]}]
    /\ UNCHANGED <<pc, now, limit, self, lock_vars, handler_vars,
                   images_queue, detections_queue, consumer_vars>>

(* return deleted_count *)
DeleteReturn ==
    /\ pc = "delete"
    /\ run.position > Len(run.image_paths)
    /\ pc' = "deleted"
    /\ UNCHANGED <<now, limit, self, run, hist, lock_vars, handler_vars,
                   queue_vars, consumer_vars>>

(* ------------------ capture_best_frame: the sampling loop --------------- *)
(* what one cap.read() of the loop can give: an exception, a frame that is  *)
(* not usable (ret false, None or not is_valid_frame), or a valid frame     *)
(* with its measure_sharpness score                                         *)
Samples ==
    {[kind |-> "raise", sharpness |-> 0], [kind |-> "invalid", sharpness |-> 0]}
      \cup [kind : {"valid"}, sharpness : 0..MaxSharpness]

SampleSeqs(n) == UNION {[1..len -> Samples] : len \in 1..n}

(* one pass of the for loop: ret, frame = self.cap.read() did not raise;    *)
(* the frame is identified by its position in the burst                     *)
SampleFrame ==
    /\ pc = "sampling"
    /\ run.i <= Len(run.samples)
    /\ run.samples[run.i].kind # "raise"
    /\ run' = IF /\ run.samples[run.i].kind = "valid"
                 /\ run.samples[run.i].sharpness > run.best_sharpness
                THEN [run EXCEPT !.best_sharpness = run.samples[run.i].sharpness,
                                 !.best_frame = run.i,
                                 !.i = @ + 1]
                ELSE [run EXCEPT !.i = @ + 1]
    /\ UNCHANGED <<pc, now, limit, self, hist, lock_vars, handler_vars,
                   queue_vars, consumer_vars>>

(* self.cap.read() raised inside the loop: except Exception: return None *)
SampleRaises ==
    /\ pc = "sampling"
    /\ run.i <= Len(run.samples)
    /\ run.samples[run.i].kind = "raise"
    /\ run' = [run EXCEPT !.best_frame = None]
    /\ cap_lock' = "free"
    /\ pc' = "sampled"
    /\ UNCHANGED <<now, limit, self, hist, brightness_lock, last_frame_lock,
                   handler_vars, queue_vars, consumer_vars>>

(* the loop is over: return best_frame *)
BurstReturn ==
    /\ pc = "sampling"
    /\ run.i > Len(run.samples)
    /\ cap_lock' = "free"
    /\ pc' = "sampled"
    /\ UNCHANGED <<now, limit, self, run, hist, brightness_lock,
                   last_frame_lock, handler_vars, queue_vars, consumer_vars>>

(* ------------------- request threads: read-side surface ---------------- *)
(* mutant: the cached frame is encoded without the None check *)
LiveResponse_NoCheck(frame) ==
    [route |-> "live", code |-> 200, frame |-> frame]

(* GET /capture/live: copy of last_good_frame under last_frame_lock *)
LiveResponse(frame) ==
    IF frame = None THEN [route |-> "live", code |-> 503]
                    ELSE [route |-> "live", code |-> 200, frame |-> frame]

GetLiveFrame(h) ==
    /\ hpc[h] = "idle"
    /\ last_frame_lock = "free"
    /\ resp' = LiveResponse(self.last_good_frame)
    /\ UNCHANGED <<pc, now, limit, self, run, hist, lock_vars, hpc,
                   status_locals, queue_vars, consumer_vars>>

(* GET /capture/health: with self.cap_lock: *)
HealthAcquire(h) ==
    /\ hpc[h] = "idle"
    /\ cap_lock = "free"
    /\ cap_lock' = h
    /\ hpc' = [hpc EXCEPT ![h] = "health"]
    /\ UNCHANGED <<pc, now, limit, self, run, hist, brightness_lock,
                   last_frame_lock, resp, status_locals, queue_vars,
                   consumer_vars>>

(* health, camera connected: with self.brightness_lock: return ..., 200 *)
HealthConnected(h) ==
    /\ hpc[h] = "health"
    /\ IsOpened(self.cap)
    /\ brightness_lock = "free"
    /\ resp' = [route |-> "health", code |-> 200,
                low_light |-> self.is_low_light,
                brightness |-> self.current_brightness]
    /\ cap_lock' = "free"
    /\ hpc' = [hpc EXCEPT ![h] = "idle"]
    /\ UNCHANGED <<pc, now, limit, self, run, hist, brightness_lock,
                   last_frame_lock, status_locals, queue_vars,
                   consumer_vars>>

(* health, camera not connected: return ..., 503 *)
HealthDisconnected(h) ==
    /\ hpc[h] = "health"
    /\ ~IsOpened(self.cap)
    /\ resp' = [route |-> "health", code |-> 503]
    /\ cap_lock' = "free"
    /\ hpc' = [hpc EXCEPT ![h] = "idle"]
    /\ UNCHANGED <<pc, now, limit, self, run, hist, brightness_lock,
                   last_frame_lock, status_locals, queue_vars,
                   consumer_vars>>

(* GET /capture/status: with self.brightness_lock: *)
StatusAcquire(h) ==
    /\ hpc[h] = "idle"
    /\ brightness_lock = "free"
    /\ brightness_lock' = h
    /\ hpc' = [hpc EXCEPT ![h] = "status"]
    /\ UNCHANGED <<pc, now, limit, self, run, hist, cap_lock,
                   last_frame_lock, resp, status_locals, queue_vars,
                   consumer_vars>>

(* status: with self.cap_lock: camera_connected = ... *)
StatusAcquireCap(h) ==
    /\ hpc[h] = "status"
    /\ cap_lock = "free"
    /\ cap_lock' = h
    /\ hpc' = [hpc EXCEPT ![h] = "status_cap"]
    /\ UNCHANGED <<pc, now, limit, self, run, hist, brightness_lock,
                   last_frame_lock, resp, status_locals, queue_vars,
                   consumer_vars>>

(* status: the with self.cap_lock block ends; the dict of the response is  *)
(* evaluated entry by entry, here up to 'motion_min_area'                  *)
StatusReadFields(h) ==
    /\ hpc[h] = "status_cap"
    /\ status_locals' = [route |-> "status", code |-> 200,
                         camera_connected |-> IsOpened(self.cap),
                         low_light |-> self.is_low_light,
                         brightness |-> self.current_brightness,
                         frame_errors |-> self.frame_errors,
                         corrupted_frames |-> self.corrupted_frames,
                         total_frames |-> self.total_frames,
                         motion_area |-> self.last_motion_area,
                         motion_min_area |-> self.last_motion_min_area]
    /\ cap_lock' = "free"
    /\ hpc' = [hpc EXCEPT ![h] = "status_fields"]
    /\ UNCHANGED <<pc, now, limit, self, run, hist, brightness_lock,
                   last_frame_lock, resp, queue_vars, consumer_vars>>

(* the last entry of the dict, read from the fields a second time *)
StatusMotionDetected(area, min_area) == area > min_area

(* status: 'motion_detected' is evaluated, the response is returned and    *)
(* brightness_lock released                                                *)
StatusRespond(h) ==
    /\ hpc[h] = "status_fields"
    /\ resp' = [route |-> "status", code |-> 200,
                camera_connected |-> status_locals.camera_connected,
                low_light |-> status_locals.low_light,
                brightness |-> status_locals.brightness,
                frame_errors |-> status_locals.frame_errors,
                corrupted_frames |-> status_locals.corrupted_frames,
                total_frames |-> status_locals.total_frames,
                motion_area |-> status_locals.motion_area,
                motion_min_area |-> status_locals.motion_min_area,
                motion_detected |->
                    StatusMotionDetected(self.last_motion_area,
                                         self.last_motion_min_area)]
    /\ status_locals' = NoResponse
    /\ brightness_lock' = "free"
    /\ hpc' = [hpc EXCEPT ![h] = "idle"]
    /\ UNCHANGED <<pc, now, limit, self, run, hist, cap_lock,
                   last_frame_lock, queue_vars, consumer_vars>>

(* -------------------- DetectionService.run: consumer ------------------- *)
(* mutant: the consumer pops at the end the producer pushes on *)
BRPopMessage_Head(q) == q[1]

(* redis brpop: pop at the tail of the list *)
BRPopMessage(q) == q[Len(q)]
BRPopRest(q) == SubSeq(q, 1, Len(q) - 1)

(* the classifier is a function of the image: its category once computed *)
Verdicts(path) ==
    IF \E i \in 1..Len(dhist.verdict) : dhist.verdict[i].image_path = path
      THEN {dhist.verdict[i].category :
              i \in {j \in 1..Len(dhist.verdict) :
                       dhist.verdict[j].image_path = path}}
      ELSE Categories

Remember(path, c) ==
    IF \E i \in 1..Len(dhist.verdict) : dhist.verdict[i].image_path = path
      THEN dhist.verdict
      ELSE Append(dhist.verdict, [image_path |-> path, category |-> c])

(* publish_detection: the record pushed on the detections queue *)
Detection(m, c) ==
    [image_path |-> m.image_path, timestamp |-> m.timestamp, category |-> c]

(* result = self.redis_client.brpop(images_queue, timeout); json.loads *)
Pop ==
    /\ dpc = "pop"
    /\ Len(images_queue) > 0
    /\ image_data' = BRPopMessage(images_queue)
    /\ images_queue' = BRPopRest(images_queue)
    /\ dhist' = [dhist EXCEPT
                   !.popped = Append(@, BRPopMessage(images_queue).image_path)]
    /\ dpc' = "process"
    /\ UNCHANGED <<pc, now, limit, self, run, hist, lock_vars, handler_vars,
                   detections_queue, image_store>>

(* the end of one pass through the consumer loop *)
EndOfMessage(done) ==
    /\ dpc' = "pop"
    /\ image_data' = NoMessage
    /\ UNCHANGED <<pc, now, limit, self, run, hist, lock_vars, handler_vars,
                   images_queue>>

(* process_image: a target class met its threshold: publish_detection *)
ProcessDetected ==
    /\ dpc = "process"
    /\ image_data.image_path \in image_store
    /\ \E c \in Verdicts(image_data.image_path) \ {"none"} :
         /\ detections_queue' = LPush(detections_queue,
                                      Detection(image_data, c))
         /\ dhist' = [dhist EXCEPT
                        !.completed = @ \cup {image_data.image_path},
                        !.verdict = Remember(image_data.image_path, c),
                        !.outcome = "published"]
    /\ UNCHANGED image_store
    /\ EndOfMessage(TRUE)

(* process_image: category 'none': delete_image *)
ProcessNone ==
    /\ dpc = "process"
    /\ image_data.image_path \in image_store
    /\ "none" \in Verdicts(image_data.image_path)
    /\ image_store' = image_store \ {image_data.image_path}
    /\ dhist' = [dhist EXCEPT
                   !.completed = @ \cup {image_data.image_path},
                   !.verdict = Remember(image_data.image_path, "none"),
                   !.outcome = "deleted"]
    /\ UNCHANGED detections_queue
    /\ EndOfMessage(TRUE)

(* detect_objects returned None: the image is not there (any more) *)
ProcessMissing ==
    /\ dpc = "process"
    /\ image_data.image_path \notin image_store
    /\ dhist' = [dhist EXCEPT !.outcome = "missing"]
    /\ UNCHANGED <<detections_queue, image_store>>
    /\ EndOfMessage(FALSE)

(* detect_objects returned None: the inference raised, the exception is   *)
(* printed and the message is gone                                         *)
ProcessError ==
    /\ dpc = "process"
    /\ image_data.image_path \in image_store
    /\ dhist' = [dhist EXCEPT !.outcome = "inference_error"]
    /\ UNCHANGED <<detections_queue, image_store>>
    /\ EndOfMessage(FALSE)

(* process_image: a target class met its threshold, the lpush of           *)
(* publish_detection raised: the exception is printed and dropped          *)
ProcessPublishError ==
    /\ dpc = "process"
    /\ image_data.image_path \in image_store
    /\ \E c \in Verdicts(image_data.image_path) \ {"none"} :
         dhist' = [dhist EXCEPT
                     !.verdict = Remember(image_data.image_path, c),
                     !.outcome = "publish_error"]
    /\ UNCHANGED <<detections_queue, image_store>>
    /\ EndOfMessage(FALSE)

(* process_image: category 'none', the unlink of delete_image raised: the  *)
(* exception is printed and dropped                                        *)
ProcessDeleteError ==
    /\ dpc = "process"
    /\ image_data.image_path \in image_store
    /\ "none" \in Verdicts(image_data.image_path)
    /\ dhist' = [dhist EXCEPT
                   !.verdict = Remember(image_data.image_path, "none"),
                   !.outcome = "delete_error"]
    /\ UNCHANGED <<detections_queue, image_store>>
    /\ EndOfMessage(FALSE)

(* SIGTERM / SIGINT: signal_handler calls sys.exit(0) *)
Terminate ==
    /\ dpc \in {"pop", "process"}
    /\ dpc' = "stopped"
    /\ image_data' = NoMessage
    /\ UNCHANGED <<pc, now, limit, self, run, hist, lock_vars, handler_vars,
                   queue_vars, dhist>>

(* the capture thread on its own *)
Next ==
    \/ Start
    \/ LoopAcquire
    \/ TopReopenBlocks
    \/ ReadFalse
    \/ ReadRaise
    \/ ReadInvalid
    \/ ReadOk
    \/ UpdateBrightness
    \/ StoreLastGood
    \/ WarmupFrame
    \/ DetectFrame
    \/ Settle
    \/ FetchSnapshot
    \/ CaptureSnapshot
    \/ BurstAcquire
    \/ CaptureBurst
    \/ CaptureCurrent
    \/ PublishOk
    \/ PublishError
    \/ DetectRaises
    \/ SaveImageRaises
    \/ EndOfIteration
    \/ ReconnectClose
    \/ ReconnectOpenOk
    \/ ReconnectOpenFail
    \/ Interrupt
    \/ Finally

Spec == Init /\ [][Next]_vars

(* the capture thread next to the request threads *)
InitLocks == InitWith(MaxFramesLocks)

NextLocks ==
    \/ Start
    \/ LoopAcquire
    \/ TopReopenBlocks
    \/ ReadFalse
    \/ ReadOk
    \/ UpdateBrightness
    \/ StoreLastGood
    \/ WarmupFrame
    \/ DetectFrame
    \/ Settle
    \/ FetchSnapshot
    \/ CaptureSnapshot
    \/ BurstAcquire
    \/ CaptureBurst
    \/ PublishOk
    \/ EndOfIteration
    \/ ReconnectClose
    \/ ReconnectOpenOk
    \/ ReconnectOpenFail
    \/ \E h \in Handlers : GetLiveFrame(h)
    \/ \E h \in Handlers : HealthAcquire(h)
    \/ \E h \in Handlers : HealthConnected(h)
    \/ \E h \in Handlers : HealthDisconnected(h)
    \/ \E h \in Handlers : StatusAcquire(h)
    \/ \E h \in Handlers : StatusAcquireCap(h)
    \/ \E h \in Handlers : StatusReadFields(h)
    \/ \E h \in Handlers : StatusRespond(h)

SpecLocks == InitLocks /\ [][NextLocks]_vars

(* the capture thread, with a camera that works, next to the consumer *)
InitQueue == InitWith(MaxFramesQueue)

NextQueue ==
    \/ Start
    \/ LoopAcquire
    \/ TopReopenBlocks
    \/ ReadOk
    \/ UpdateBrightness
    \/ StoreLastGood
    \/ WarmupFrame
    \/ DetectFrame
    \/ Settle
    \/ FetchSnapshot
    \/ CaptureSnapshot
    \/ BurstAcquire
    \/ CaptureBurst
    \/ PublishOk
    \/ PublishRetried
    \/ EndOfIteration
    \/ Pop
    \/ ProcessDetected
    \/ ProcessNone
    \/ ProcessMissing
    \/ ProcessError
    \/ ProcessPublishError
    \/ ProcessDeleteError
    \/ Terminate

SpecQueue == InitQueue /\ [][NextQueue]_vars

(* the loop of the host service, for each clip configuration explored *)
InitHost ==
    /\ pc = "start"
    /\ now = 0
    /\ limit = MaxFramesHost
    /\ \E d \in ClipDurations, f \in ClipRates :
         self = [InitSelf EXCEPT !.video_clip_duration = d,
                                 !.video_clip_fps = f,
                                 !.max_buffer_frames = MaxBufferFrames(d, f)]
    /\ run = InitRun
    /\ hist = InitHist
    /\ cap_lock = "free" /\ brightness_lock = "free" /\ last_frame_lock = "free"
    /\ images_queue = <<>> /\ detections_queue = <<>> /\ image_store = {}
    /\ hpc = [h \in Handlers |-> "idle"]
    /\ resp = NoResponse
    /\ status_locals = NoResponse
    /\ dpc = "pop"
    /\ image_data = NoMessage
    /\ dhist = InitDHist

NextHost ==
    \/ Start
    \/ LoopAcquire
    \/ ReadFalse
    \/ ReadRaise
    \/ ReadInvalid
    \/ ReadOk
    \/ UpdateBrightness
    \/ HostStoreLastGood
    \/ BufferFrame
    \/ WarmupFrame
    \/ DetectFrame
    \/ Settle
    \/ HostBurstAcquire
    \/ HostCaptureBurst
    \/ HostCaptureCurrent
    \/ SaveVideoClip
    \/ HostPublishOk
    \/ HostPublishError
    \/ EndOfIteration
    \/ ReconnectClose
    \/ ReconnectOpenOk
    \/ ReconnectOpenFail

SpecHost == InitHost /\ [][NextHost]_vars

(* ------------------------------ properties ---------------------------- *)
Paths(q) == {q[i].image_path : i \in 1..Len(q)}

(* capture_best_frame on its own: the camera is opened, cap_lock is held,  *)
(* best_frame = None, best_sharpness = 0.0, and the frames of the burst    *)
(* are drawn from SampleSeqs                                               *)
InitBurst ==
    /\ pc = "sampling"
    /\ now = 0
    /\ limit = 0
    /\ self = [InitSelf EXCEPT !.cap = "open"]
    /\ \E s \in SampleSeqs(MaxSamples) : run = [InitRun EXCEPT !.samples = s]
    /\ hist = InitHist
    /\ cap_lock = "capture" /\ brightness_lock = "free"
    /\ last_frame_lock = "free"
    /\ images_queue = <<>> /\ detections_queue = <<>> /\ image_store = {}
    /\ hpc = [h \in Handlers |-> "idle"]
    /\ resp = NoResponse
    /\ status_locals = NoResponse
    /\ dpc = "pop"
    /\ image_data = NoMessage
    /\ dhist = InitDHist

NextBurst ==
    \/ SampleFrame
    \/ SampleRaises
    \/ BurstReturn

SpecBurst == InitBurst /\ [][NextBurst]_vars
(* is_valid_frame on its own, applied to the frames of Frames *)
InitValid ==
    /\ pc = "validate"
    /\ now = 0
    /\ limit = 0
    /\ self = InitSelf
    /\ \E f \in Frames : run = [InitRun EXCEPT !.frame = f]
    /\ hist = InitHist
    /\ cap_lock = "free" /\ brightness_lock = "free" /\ last_frame_lock = "free"
    /\ images_queue = <<>> /\ detections_queue = <<>> /\ image_store = {}
    /\ hpc = [h \in Handlers |-> "idle"]
    /\ resp = NoResponse
    /\ status_locals = NoResponse
    /\ dpc = "pop"
    /\ image_data = NoMessage
    /\ dhist = InitDHist

NextValid ==
    \/ ValidateFrame
    \/ NextFrame

SpecValid == InitValid /\ [][NextValid]_vars
(* delete_image_files on its own: image_store holds the files under         *)
(* images_path, any subset of the files of ImagePaths, and the argument is  *)
(* any list of up to MaxPaths relative paths                                *)
InitDelete ==
    /\ pc = "delete"
    /\ now = 0
    /\ limit = 0
    /\ self = InitSelf
    /\ \E paths \in UNION {[1..n -> ImagePaths] : n \in 1..MaxPaths} :
         run = [InitRun EXCEPT !.image_paths = paths]
    /\ image_store \in SUBSET (UNION {FilesOf(p) : p \in ImagePaths})
    /\ hist = [InitHist EXCEPT !.files_before = image_store]
    /\ cap_lock = "free" /\ brightness_lock = "free" /\ last_frame_lock = "free"
    /\ images_queue = <<>> /\ detections_queue = <<>>
    /\ hpc = [h \in Handlers |-> "idle"]
    /\ resp = NoResponse
    /\ status_locals = NoResponse
    /\ dpc = "pop"
    /\ image_data = NoMessage
    /\ dhist = InitDHist

NextDelete ==
    \/ DeletePathFiles
    \/ DeletePathRaises
    \/ DeleteReturn

SpecDelete == InitDelete /\ [][NextDelete]_vars

(* the capture thread for each gate configuration explored *)
InitGate ==
    /\ pc = "start"
    /\ now = 0
    /\ limit = MaxFramesGate
    /\ self = InitSelf
    /\ \E c \in GateConfigs :
         run = [InitRun EXCEPT !.cooldown = c[1], !.motion_delay = c[2]]
    /\ hist = InitHist
    /\ cap_lock = "free" /\ brightness_lock = "free" /\ last_frame_lock = "free"
    /\ images_queue = <<>> /\ detections_queue = <<>> /\ image_store = {}
    /\ hpc = [h \in Handlers |-> "idle"]
    /\ resp = NoResponse
    /\ status_locals = NoResponse
    /\ dpc = "pop"
    /\ image_data = NoMessage
    /\ dhist = InitDHist

NextGate ==
    \/ Start
    \/ LoopAcquire
    \/ ReadOk
    \/ UpdateBrightness
    \/ StoreLastGood
    \/ WarmupFrame
    \/ DetectFrame
    \/ Settle
    \/ FetchSnapshot
    \/ CaptureSnapshot
    \/ BurstAcquire
    \/ CaptureBurst
    \/ CaptureCurrent
    \/ PublishOk
    \/ PublishError
    \/ EndOfIteration

SpecGate == InitGate /\ [][NextGate]_vars

(* C1: no two CaptureEvents published by the capture loop carry timestamps  *)
(* that differ by less than the configured cooldown.                        *)
C1_TimestampsCooldownApart ==
    \A i, j \in 1..Len(hist.events) :
        i < j => hist.events[j].timestamp - hist.events[i].timestamp >= cooldown

(* C2: a capture is triggered only when motion_detected_time was recorded   *)
(* on an earlier frame, at least motion_delay before the triggering frame,  *)
(* inside the current unbroken run of validated frames with detected =      *)
(* true; a processed frame with detected = false clears it.                 *)
C2_SettledMotionOnly ==
    /\ pc = "settle" =>
         /\ run.motion_detected_time # None
         /\ run.motion_detected_time < run.current_time
         /\ run.current_time - run.motion_detected_time >= motion_delay
         /\ hist.streak_start # None
         /\ hist.streak_start <= run.motion_detected_time
    /\ (pc \in {"settle", "sleep"} /\ ~run.motion_detected) =>
         run.motion_detected_time = None

(* C2 witness: a capture has been triggered after a settle period that was  *)
(* started over by a frame without motion.                                  *)
C2_Witness ==
    /\ pc = "settle"
    /\ hist.streak_start > warmup_frames

(* C3: the capture thread never waits for a lock that nothing can release:  *)
(* it is never blocked on cap_lock while holding cap_lock itself.           *)
C3_NeverBlockedForGood ==
    ~(pc = "blocked" /\ cap_lock = "capture")

(* C4: no read-side handler ever holds cap_lock, the lock of the camera     *)
(* I/O path.                                                                *)
C4_HandlersAvoidCapLock ==
    cap_lock \notin Handlers

(* C5: every capture message pushed on the images queue is still queued,    *)
(* is being processed, or has been processed to completion.                 *)
C5_NoMessageLost ==
    \A i \in 1..Len(hist.events) :
        LET path == PathOf(hist.events[i].timestamp)
        IN  \/ path \in Paths(images_queue)
            \/ image_data.image_path = path
            \/ path \in dhist.completed

(* C6: processing a message whose image_path was already processed to       *)
(* completion changes neither the detections queue nor the image store.     *)
C6_DuplicateIsNoOp ==
    [][(/\ dpc = "process"
        /\ dpc' = "pop"
        /\ image_data.image_path \in dhist.completed)
         => (/\ detections_queue' = detections_queue
             /\ image_store' = image_store)]_vars

(* C7: while frame_count is below warmup_frames, motion_detected is false,  *)
(* no capture is in progress, no image is saved and no event is published.  *)
C7_NoCaptureInWarmup ==
    run.frame_count < warmup_frames =>
        /\ pc \in {"sleep", "settle"} => ~run.motion_detected
        /\ pc \notin {"settle", "select", "fetched", "burst", "publish"}
        /\ image_store = {}
        /\ images_queue = <<>>
        /\ hist.events = <<>>

(* C7 witness: a valid frame has been processed during warmup.              *)
C7_Witness ==
    /\ pc = "sleep"
    /\ run.frame_count >= 1
    /\ run.frame_count < warmup_frames
    /\ run.current_time = now

(* C8: once detect_motion has produced a reading, warmup_frames frames have *)
(* been fed into the background model.                                      *)
C8_WarmupCountsFedFrames ==
    hist.reported => self.bg_frames >= warmup_frames

(* C9: a step starts the threshold reconnect exactly when it is a loop      *)
(* iteration that leaves consecutive_errors at or above                     *)
(* max_consecutive_errors; a successful reopen and a valid frame leave      *)
(* consecutive_errors at 0.                                                 *)
C9_ReconnectAtThreshold ==
    [][/\ (pc # "rc_close" /\ pc' = "rc_close")
            <=> (/\ self'.total_frames = self.total_frames + 1
                 /\ self'.consecutive_errors >= max_consecutive_errors)
       /\ (pc = "rc_open" /\ pc' = "loop" /\ IsOpened(self'.cap))
            => self'.consecutive_errors = 0
       /\ (pc = "locked" /\ pc' = "brightness")
            => self'.consecutive_errors = 0]_vars

(* C9 witness: a failing iteration has brought consecutive_errors to the    *)
(* threshold and the reconnect has been started.                            *)
C9_Witness ==
    /\ pc = "rc_close"
    /\ self.consecutive_errors = max_consecutive_errors
    /\ self.total_frames >= max_consecutive_errors

(* C10: after a run of n consecutive unreadable frames in which every       *)
(* reopen succeeded, floor(n / max_consecutive_errors) threshold reconnects *)
(* have been performed.                                                     *)
C10_ReconnectsPerRun ==
    (pc = "loop" /\ hist.run_clean) =>
        hist.run_reconnects = hist.fail_run \div max_consecutive_errors

(* C11: failed reads and validator rejections feed the same counter: every  *)
(* loop iteration that ends without a valid frame, whatever its kind,       *)
(* raises consecutive_errors, and every valid frame sets it to zero.        *)
C11_OneErrorCounter ==
    [][self'.total_frames = self.total_frames + 1 =>
         IF pc' = "brightness"
           THEN self'.consecutive_errors = 0
           ELSE self'.consecutive_errors > self.consecutive_errors]_vars

(* C11 witness: a mix of failed reads and rejected frames, with no valid    *)
(* frame in between, has reached the reconnect threshold.                   *)
C11_Witness ==
    /\ pc = "rc_close"
    /\ self.frame_errors >= 1
    /\ self.corrupted_frames >= 1
    /\ self.total_frames = max_consecutive_errors
    /\ self.frame_errors + self.corrupted_frames = self.consecutive_errors

(* C12: a successful reconnect sets consecutive_errors, total_frames,       *)
(* frame_errors and corrupted_frames to zero, and no other step sets a      *)
(* non-zero one of them to zero.                                            *)
C12_CountersResetOnlyOnReconnect ==
    [][/\ (pc = "rc_open" /\ IsOpened(self'.cap)) =>
            /\ self'.consecutive_errors = 0
            /\ self'.total_frames = 0
            /\ self'.frame_errors = 0
            /\ self'.corrupted_frames = 0
       /\ (\/ self.consecutive_errors # 0 /\ self'.consecutive_errors = 0
           \/ self.total_frames # 0 /\ self'.total_frames = 0
           \/ self.frame_errors # 0 /\ self'.frame_errors = 0
           \/ self.corrupted_frames # 0 /\ self'.corrupted_frames = 0) =>
            (pc = "rc_open" /\ IsOpened(self'.cap))]_vars

(* C13: a publish whose push raised leaves the queue as it was, takes the   *)
(* loop to the end of the iteration with last_capture_time set to the       *)
(* frame's current_time and motion_detected_time cleared, exactly as a      *)
(* successful publish does, and its timestamp is never pushed later.        *)
C13_FailedPublishGoesOn ==
    [][/\ pc = "publish" =>
            /\ pc' = "sleep"
            /\ run'.last_capture_time = run.current_time
            /\ run'.motion_detected_time = None
            /\ hist'.attempts = Append(hist.attempts, run.timestamp)
       /\ \A i \in 1..Len(images_queue') :
            \E j \in 1..Len(hist'.events) :
                hist'.events[j].timestamp = images_queue'[i].timestamp
       /\ \A i, j \in 1..Len(hist'.attempts) :
            i < j => hist'.attempts[i] < hist'.attempts[j]]_vars

(* C13 witness: the loop reads the next frame after a publish that failed.  *)
C13_Witness ==
    /\ pc = "locked"
    /\ Len(hist.attempts) = 1
    /\ hist.events = <<>>
    /\ images_queue = <<>>
    /\ run.last_capture_time = run.current_time

(* C14: every message on the images queue refers to an image that was       *)
(* written: no event is pushed for a capture whose image write failed.      *)
C14_NoMessageForUnwrittenImage ==
    \A i \in 1..Len(images_queue) :
        images_queue[i].image_path \in image_store

(* C15: whatever the clip export returns, the capture goes on: the saved    *)
(* image is left in place, the loop proceeds to the publish step, and the   *)
(* publish step hands the capture's event to the queue client.              *)
C15_ClipFailureKeepsCapture ==
    [][/\ pc = "clip" =>
            /\ pc' = "publish"
            /\ run.image_source \in {"burst", "current"}
            /\ image_store' = image_store
            /\ run'.timestamp = run.timestamp
       /\ pc = "publish" =>
            /\ hist'.attempts = Append(hist.attempts, run.timestamp)
            /\ Len(images_queue') > Len(images_queue) =>
                 images_queue'[1].image_path = PathOf(run.timestamp)]_vars

(* C15 witness: an event was published for a capture whose clip export      *)
(* returned None.                                                           *)
C15_Witness ==
    /\ pc = "sleep"
    /\ hist.events # <<>>
    /\ hist.events[Len(hist.events)].timestamp = run.timestamp
    /\ hist.events[Len(hist.events)].clip = None
    /\ run.video_path = None
    /\ self.frame_buffer # <<>>
    /\ images_queue # <<>>

(* C16: the capture loop is left only on the shutdown signal: it never      *)
(* ends in the handler of an exception raised while processing a frame.     *)
C16_OnlyShutdownEndsLoop ==
    pc # "except"

(* C17: once run() has left the loop and finished, the camera handle is     *)
(* released and cleared, and the capture thread holds no lock.              *)
C17_HandleReleasedOnExit ==
    pc = "stopped" => (self.cap = "none" /\ cap_lock # "capture")

(* C17 witness: run() has finished after frames were read from an opened    *)
(* camera.                                                                  *)
C17_Witness ==
    /\ pc = "stopped"
    /\ self.last_good_frame # None
    /\ self.total_frames > 0

(* C18: the saved image is the snapshot exactly when the fetch returned     *)
(* bytes, and then no burst is performed; the burst's frame is saved only   *)
(* without snapshot bytes, and the loop's current frame only when, without  *)
(* snapshot bytes, the burst returned no frame.                             *)
C18_FallbackChain ==
    /\ pc = "burst" => ~run.jpeg_bytes
    /\ pc = "publish" =>
         /\ run.image_source = "snapshot" <=> run.jpeg_bytes
         /\ run.image_source = "burst" <=>
              (~run.jpeg_bytes /\ run.best_frame # None)
         /\ run.image_source = "current" <=>
              (~run.jpeg_bytes /\ run.best_frame = None)

(* C18 witness: a fetched snapshot has been saved, without a burst.         *)
C18_Witness ==
    /\ pc = "publish"
    /\ run.jpeg_bytes
    /\ run.image_source = "snapshot"
    /\ PathOf(run.timestamp) \in image_store

(* C19: as long as the loop runs, every iteration on which should_capture   *)
(* was true has led to exactly one call of the publish step, with a         *)
(* timestamp of its own, whatever frame source was used; no message is on   *)
(* the queue twice.                                                         *)
C19_OnePublishPerTrigger ==
    /\ pc \in {"settle", "select", "fetched", "burst", "publish"} =>
         Len(hist.attempts) = hist.triggers - 1
    /\ pc \in {"start", "loop", "locked", "blocked", "brightness", "store",
               "motion", "sleep", "rc_close", "rc_open"} =>
         Len(hist.attempts) = hist.triggers
    /\ \A i, j \in 1..Len(hist.attempts) :
         i < j => hist.attempts[i] < hist.attempts[j]
    /\ \A i, j \in 1..Len(images_queue) :
         i # j => images_queue[i].image_path # images_queue[j].image_path
    /\ Len(images_queue) <= Len(hist.attempts)

(* C19 witness: a capture whose snapshot fetch returned nothing and whose   *)
(* burst returned no frame has been handed to the publish step.             *)
C19_Witness ==
    /\ pc = "sleep"
    /\ run.image_source = "current"
    /\ ~run.jpeg_bytes
    /\ hist.triggers >= 1
    /\ Len(hist.attempts) = hist.triggers
    /\ hist.attempts[Len(hist.attempts)] = run.timestamp

(* C20: the queued message of a capture whose clip was exported carries     *)
(* the clip's video_path.                                                   *)
C20_MessageCarriesVideoPath ==
    \A i \in 1..Len(images_queue) :
        (\E j \in 1..Len(hist.events) :
            /\ hist.events[j].timestamp = images_queue[i].timestamp
            /\ hist.events[j].clip # None)
          => "video_path" \in DOMAIN images_queue[i]

Reversed(s) == [i \in 1..Len(s) |-> s[Len(s) + 1 - i]]

(* C21: the queue is first in, first out end to end: the image paths the    *)
(* detection stage has popped, followed by the paths still queued taken     *)
(* from the tail, are the paths the capture service pushed, in push order.  *)
C21_QueueIsFifo ==
    dhist.popped \o Reversed([i \in 1..Len(images_queue) |->
                                images_queue[i].image_path])
      = hist.pushed

(* two captures were queued together and popped, the older one first *)
C21_Witness ==
    /\ Len(dhist.popped) >= 2
    /\ \E i \in 1..Len(hist.pushed) - 1 :
         /\ hist.pushed[i] # hist.pushed[i + 1]
         /\ i + 1 <= Len(dhist.popped)
         /\ dhist.popped[i] = hist.pushed[i]
         /\ dhist.popped[i + 1] = hist.pushed[i + 1]

(* C22: for every consumed message whose image exists and whose inference   *)
(* completes, the detection stage either pushes exactly one detection       *)
(* record and keeps the image, or deletes the image and pushes nothing:     *)
(* never both and never neither.                                            *)
C22_PublishXorDelete ==
    [][(/\ dpc = "process"
        /\ dpc' = "pop"
        /\ image_data.image_path \in image_store
        /\ dhist'.outcome # "inference_error")
         => LET published ==
                  /\ Len(detections_queue') = Len(detections_queue) + 1
                  /\ detections_queue'[1].image_path = image_data.image_path
                  /\ SubSeq(detections_queue', 2, Len(detections_queue'))
                       = detections_queue
                kept == image_data.image_path \in image_store'
            IN  \/ published /\ kept
                \/ detections_queue' = detections_queue /\ ~kept]_vars

C24_SharedStateUnderOneLock ==
    [][brightness_lock # "free"
         => (/\ self'.is_low_light = self.is_low_light
             /\ self'.current_brightness = self.current_brightness
             /\ self'.last_motion_area = self.last_motion_area
             /\ self'.last_motion_min_area = self.last_motion_min_area
             /\ self'.frame_errors = self.frame_errors
             /\ self'.corrupted_frames = self.corrupted_frames
             /\ self'.total_frames = self.total_frames)]_vars

C26_BurstReturnsSharpest ==
    pc = "sampled"
      => LET valid == {k \in 1..Len(run.samples) :
                         k < run.i /\ run.samples[k].kind = "valid"}
         IN  /\ run.best_frame # None => run.best_frame \in valid
             /\ run.best_frame # None
                  => \A k \in valid : run.samples[k].sharpness
                                        <= run.samples[run.best_frame].sharpness
             /\ valid # {} => run.best_frame # None

(* C27: the clip buffer never holds more than its capacity                  *)
(* int(duration * fps) + extra; on overflow the oldest entry is evicted, so *)
(* the buffer is the most recent min(n, capacity) of the n frames appended, *)
(* in arrival order.                                                        *)
C27_BufferKeepsMostRecent ==
    LET n == Len(hist.appended)
        capacity == ClipFrames(self.video_clip_duration, self.video_clip_fps)
                      + buffer_extra
        kept == IF n < capacity THEN n ELSE capacity
    IN  /\ self.max_buffer_frames = capacity
        /\ Len(self.frame_buffer) <= capacity
        /\ self.frame_buffer = SubSeq(hist.appended, n - kept + 1, n)

(* the buffer is full and its oldest entries have been evicted *)
C27_Witness ==
    /\ Len(hist.appended) >= self.max_buffer_frames + 2
    /\ Len(self.frame_buffer) = self.max_buffer_frames
    /\ self.frame_buffer[1] = hist.appended[3]
    /\ self.max_buffer_frames > 1

InClipWindow(e) ==
    /\ e.t >= hist.clip_time - self.video_clip_duration
    /\ e.t <= hist.clip_time

(* C28: when at least one buffered frame lies in [now - duration, now], the *)
(* clip snapshot is exactly the buffered frames in that window, in capture  *)
(* order, and none older.                                                   *)
C28_SnapshotIsWindow ==
    (/\ pc = "publish"
     /\ \E i \in 1..Len(self.frame_buffer) : InClipWindow(self.frame_buffer[i]))
      => /\ \A k \in 1..Len(run.frames_to_save) :
              /\ InClipWindow(run.frames_to_save[k])
              /\ \E i \in 1..Len(self.frame_buffer) :
                   self.frame_buffer[i] = run.frames_to_save[k]
         /\ \A i \in 1..Len(self.frame_buffer) :
              InClipWindow(self.frame_buffer[i])
                => \E k \in 1..Len(run.frames_to_save) :
                     run.frames_to_save[k] = self.frame_buffer[i]
         /\ \A k \in 1..Len(run.frames_to_save) - 1 :
              run.frames_to_save[k].frame < run.frames_to_save[k + 1].frame

(* a snapshot of two frames was taken from a buffer that also held an older *)
(* frame, outside the window                                                *)
C28_Witness ==
    /\ pc = "publish"
    /\ Len(run.frames_to_save) >= 2
    /\ Len(self.frame_buffer) > Len(run.frames_to_save)
    /\ ~InClipWindow(self.frame_buffer[1])
    /\ run.video_path # None

(* C29: when the buffer is not empty and no buffered frame lies in the      *)
(* window, the snapshot is the last min(len(buffer), floor(fps * duration)) *)
(* entries of the buffer, never more than fps * duration of them.           *)
C29_FallbackIsBounded ==
    (/\ pc = "publish"
     /\ self.frame_buffer # <<>>
     /\ \A i \in 1..Len(self.frame_buffer) : ~InClipWindow(self.frame_buffer[i]))
      => LET n == Len(self.frame_buffer)
             floor == ClipFrames(self.video_clip_duration, self.video_clip_fps)
             k == IF n < floor THEN n ELSE floor
         IN  /\ run.frames_to_save = SubSeq(self.frame_buffer, n - k + 1, n)
             /\ Len(run.frames_to_save) * FpsDen
                  <= self.video_clip_fps * self.video_clip_duration

(* C30: after a successful camera reconnect the background model is         *)
(* recreated and the controller goes through warmup again: the first valid  *)
(* frame read after a threshold reconnect meets a background model that has *)
(* seen no frame yet.                                                       *)
C30_ReconnectRestartsWarmup ==
    [][(/\ pc = "locked"
        /\ pc' = "brightness"
        /\ hist.run_reconnects > 0)
         => self.bg_frames = 0]_vars

(* C31: the motion reading is detected == (foreground pixel count >         *)
(* min_area), strictly, and the motion_detected value of a /capture/status  *)
(* response is that same predicate over the motion_area and motion_min_area *)
(* the response reports.                                                    *)
C31_StatusMotionMatchesAreas ==
    /\ run.motion_detected
         = (hist.reported /\ self.last_motion_area > self.last_motion_min_area)
    /\ resp.route = "status"
         => resp.motion_detected = (resp.motion_area > resp.motion_min_area)

(* C32: is_valid_frame returns false for every frame whose pixel standard   *)
(* deviation is (near) zero and true for every frame whose pixel standard   *)
(* deviation is at least 1 unit.                                            *)
C32_ValidIffNotUniform ==
    (pc = "validated" /\ ~run.frame.none)
      => /\ run.frame.std < StdEpsilon => ~run.valid
         /\ run.frame.std >= StdUnit => run.valid

(* C32, amended: the same for frames of at least two dimensions that are at *)
(* least 10 pixels wide and high; every other frame is rejected whatever    *)
(* its standard deviation.                                                  *)
C32_ValidIffNotUniformAndLargeEnough ==
    pc = "validated"
      => LET usable == /\ ~run.frame.none
                       /\ run.frame.ndim >= 2
                       /\ run.frame.width >= MinDimension
                       /\ run.frame.height >= MinDimension
         IN  /\ (usable /\ run.frame.std < StdEpsilon) => ~run.valid
             /\ (usable /\ run.frame.std >= StdUnit) => run.valid
             /\ ~usable => ~run.valid

(* a frame of the smallest usable size with a standard deviation of exactly *)
(* one unit was accepted                                                    *)
C32_Witness ==
    /\ pc = "validated"
    /\ run.frame.width = MinDimension
    /\ run.frame.height = MinDimension
    /\ run.frame.std = StdUnit
    /\ run.valid

Listed == {run.image_paths[k] : k \in 1..Len(run.image_paths)}

(* C33: delete_image_files(paths) removes, for every listed path, the image *)
(* file together with its thumbnail and bbox companions when they exist,    *)
(* returns the number of listed paths whose image file existed and was      *)
(* deleted, and skips listed paths whose image is missing without aborting  *)
(* the rest.                                                                *)
C33_DeletesEveryListedImage ==
    pc = "deleted"
      => /\ \A p \in Listed : FilesOf(p) \cap image_store = {}
         /\ run.deleted_count
              = Cardinality({p \in Listed :
                               FileOf(p, "image") \in hist.files_before})

(* C33, amended: every listed path on which no unlink raised has lost its   *)
(* image, thumbnail and bbox image; the count returned is the number of     *)
(* listed paths whose image existed and is gone; nothing but files of       *)
(* listed paths is removed; and the list is always processed to its end,    *)
(* whether an image is missing or an unlink raises.                         *)
C33_DeletesListedImagesUnlessUnlinkRaises ==
    pc = "deleted"
      => /\ run.position = Len(run.image_paths) + 1
         /\ \A p \in Listed \ hist.raised : FilesOf(p) \cap image_store = {}
         /\ run.deleted_count
              = Cardinality({p \in Listed :
                               /\ FileOf(p, "image") \in hist.files_before
                               /\ FileOf(p, "image") \notin image_store})
         /\ image_store \subseteq hist.files_before
         /\ hist.files_before \ image_store
              \subseteq UNION {FilesOf(p) : p \in Listed}

(* a list whose first image was missing and whose second image was deleted  *)
(* together with its thumbnail and bbox image                               *)
C33_Witness ==
    /\ pc = "deleted"
    /\ run.image_paths = <<"a.jpg", "b.jpg">>
    /\ FileOf("a.jpg", "image") \notin hist.files_before
    /\ FilesOf("b.jpg") \subseteq hist.files_before
    /\ FilesOf("b.jpg") \cap image_store = {}
    /\ hist.raised = {}
    /\ run.deleted_count = 1

(* C34: the capture thread and concurrent /capture/health and               *)
(* /capture/status requests are deadlock-free: no reachable state has two   *)
(* threads each holding one of cap_lock and brightness_lock while waiting   *)
(* for the other.                                                           *)
C34_NoLockOrderDeadlock ==
    ~ \E h1, h2 \in Handlers :
        /\ hpc[h1] = "health" /\ cap_lock = h1 /\ IsOpened(self.cap)
        /\ hpc[h2] = "status" /\ brightness_lock = h2

(* C35: every loop iteration that fails (read returns false, read raises,   *)
(* or the validator rejects the frame) increases consecutive_errors by      *)
(* exactly one, so the threshold reconnect is never initiated after fewer   *)
(* than max_consecutive_errors consecutive failed iterations.               *)
C35_OneErrorPerFailedIteration ==
    [][(self'.total_frames = self.total_frames + 1 /\ pc' # "brightness")
         => /\ self'.consecutive_errors = self.consecutive_errors + 1
            /\ pc' = "rc_close" => hist'.fail_run >= max_consecutive_errors]_vars

(* C36: in every reachable state of the capture loop the health counters    *)
(* satisfy frame_errors + corrupted_frames <= total_frames, so the reported *)
(* error rate never exceeds 100%.                                           *)
C36_ErrorsWithinTotal ==
    self.frame_errors + self.corrupted_frames <= self.total_frames

(* C37: a loop iteration whose frame fails to read or is rejected by the    *)
(* validator changes only the health counters (and, through the threshold   *)
(* reconnect, the camera handle): the time motion started, the time of the  *)
(* last capture, the cached last good frame, the brightness state, the clip *)
(* buffer and the background model are left unchanged, and no capture is    *)
(* triggered on that iteration.                                             *)
C37_FailedIterationTouchesCountersOnly ==
    [][(\/ (self'.total_frames = self.total_frames + 1 /\ pc' # "brightness")
        \/ pc \in {"rc_close", "rc_open"})
         => (/\ pc' \in {"loop", "rc_close", "rc_open"}
             /\ run'.motion_detected_time = run.motion_detected_time
             /\ run'.last_capture_time = run.last_capture_time
             /\ run'.motion_detected = run.motion_detected
             /\ self'.last_good_frame = self.last_good_frame
             /\ self'.current_brightness = self.current_brightness
             /\ self'.is_low_light = self.is_low_light
             /\ self'.frame_buffer = self.frame_buffer
             /\ self'.bg_frames = self.bg_frames
             /\ self'.last_motion_area = self.last_motion_area
             /\ hist'.triggers = hist.triggers
             /\ hist'.attempts = hist.attempts
             /\ UNCHANGED <<images_queue, image_store>>)]_vars

(* a frame was rejected while motion was being timed, a frame was cached    *)
(* and the clip buffer was filled                                           *)
C37_Witness ==
    /\ pc = "loop"
    /\ self.corrupted_frames > 0
    /\ self.consecutive_errors > 0
    /\ run.motion_detected_time # None
    /\ self.last_good_frame # None
    /\ self.frame_buffer # <<>>
    /\ self.bg_frames > 0

Max(a, b) == IF a >= b THEN a ELSE b

(* C38: since motion_detected_time is cleared after every capture, any two  *)
(* consecutive captures are triggered at loop times that are at least       *)
(* max(cooldown, motion_delay) apart, also when motion is uninterrupted and *)
(* the cooldown is smaller than the motion delay: an iteration on which     *)
(* should_capture is true comes at least that long after the previous one.  *)
C38_TriggersAtLeastMaxApart ==
    [][(hist'.triggers = hist.triggers + 1 /\ hist.last_trigger # None)
         => now - hist.last_trigger >= Max(run.cooldown, run.motion_delay)]_vars

(* a second capture has been triggered during one unbroken run of motion,   *)
(* under a cooldown smaller than the motion delay                           *)
C38_Witness ==
    /\ run.cooldown < run.motion_delay
    /\ hist.triggers = 2
    /\ Len(hist.events) >= 1
    /\ hist.streak_start # None
    /\ hist.streak_start < hist.events[1].trigger
    /\ hist.last_trigger > hist.events[1].trigger

(* C39: in every health or status response low_light is true exactly when   *)
(* the reported brightness is below 0.2, in every reachable state,          *)
(* including before the first valid frame has been processed.               *)
C39_LowLightMatchesBrightness ==
    (resp.route \in {"health", "status"} /\ resp.code = 200)
        => resp.low_light = LowLight(resp.brightness)

====
